---- MODULE Spec2Model ----
(***************************************************************************)
(* Hexapawn web application (hexpawn-webapp/app.py): the board functions,  *)
(* the opening book, the move chooser and the /move, /reset and / session  *)
(* handlers.                                                               *)
(*                                                                         *)
(* A board is a function row -> column -> cell with rows and columns 0..2, *)
(* a position is a pair <<row, col>>, a move is a pair <<from, to>>.       *)
(* Python strings are TLA+ strings; ''.join is \o.                         *)
(***************************************************************************)
EXTENDS Integers, Sequences, FiniteSets, TLC

\* ------------------------------------------------------------------ bounds

\* How far outside the 3x3 grid the coordinates of a request may lie.
Margin == 1

\* ------------------------------------------------------------- constants

EMPTY == 0
PLAYER == 1
AI == 2

None == "None"

Row(a, b, c) == [col \in 0..2 |-> IF col = 0 THEN a ELSE IF col = 1 THEN b ELSE c]

Grid(r0, r1, r2) == [row \in 0..2 |-> IF row = 0 THEN r0 ELSE IF row = 1 THEN r1 ELSE r2]

INITIAL_BOARD == Grid(Row(2, 2, 2), Row(0, 0, 0), Row(1, 1, 1))

\* Every 3x3 board with cells in {EMPTY, PLAYER, AI}.
Boards == [0..2 -> [0..2 -> {EMPTY, PLAYER, AI}]]

\* In-range positions, and the coordinates a request can carry.
Cells == (0..2) \X (0..2)

Coord == (0 - Margin)..(2 + Margin)

Positions == Coord \X Coord

\* ------------------------------------------------------ board_to_string

\* str(cell) of a Python int.
str(cell) == IF cell = 0 THEN "0" ELSE IF cell = 1 THEN "1" ELSE IF cell = 2 THEN "2" ELSE "?"

\* Mutant of JoinRow: the join stops one column short.
JoinRow_OffByOne(row) == str(row[0]) \o str(row[1])

\* ''.join([str(cell) for cell in row])
JoinRow(row) == str(row[0]) \o str(row[1]) \o str(row[2])

board_to_string(board) == JoinRow(board[0]) \o JoinRow(board[1]) \o JoinRow(board[2])

\* ---------------------------------------------------------- PERFECT_MOVES

PERFECT_MOVES ==
    ( "220010101" :> <<<<0, 1>>, <<1, 1>>>> ) @@
    ( "202010101" :> <<<<0, 1>>, <<1, 1>>>> ) @@
    ( "221000101" :> <<<<0, 0>>, <<1, 0>>>> ) @@
    ( "020210101" :> <<<<1, 1>>, <<2, 0>>>> ) @@
    ( "020201101" :> <<<<1, 1>>, <<2, 2>>>> ) @@
    ( "020010201" :> <<<<1, 1>>, <<2, 0>>>> ) @@
    ( "020010021" :> <<<<1, 1>>, <<2, 2>>>> ) @@
    ( "200210101" :> <<<<1, 0>>, <<2, 1>>>> ) @@
    ( "200201101" :> <<<<0, 2>>, <<1, 2>>>> ) @@
    ( "200010201" :> <<<<0, 2>>, <<1, 2>>>> ) @@
    ( "200010021" :> <<<<1, 0>>, <<2, 1>>>> ) @@
    ( "002200101" :> <<<<0, 2>>, <<1, 1>>>> ) @@
    ( "020200101" :> <<<<0, 2>>, <<1, 1>>>> ) @@
    ( "020002101" :> <<<<0, 0>>, <<1, 1>>>> ) @@
    ( "200020101" :> <<<<0, 2>>, <<1, 1>>>> ) @@
    ( "200002101" :> <<<<0, 0>>, <<1, 1>>>> ) @@
    ( "020010001" :> <<<<1, 1>>, <<2, 1>>>> ) @@
    ( "000210001" :> <<<<0, 2>>, <<1, 2>>>> ) @@
    ( "000010201" :> <<<<0, 0>>, <<1, 0>>>> ) @@
    ( "200010001" :> <<<<1, 0>>, <<2, 0>>>> ) @@
    ( "002010001" :> <<<<1, 2>>, <<2, 2>>>> ) @@
    ( "000200001" :> <<<<0, 1>>, <<1, 1>>>> ) @@
    ( "000020001" :> <<<<0, 1>>, <<1, 1>>>> ) @@
    ( "000002001" :> <<<<0, 0>>, <<1, 0>>>> ) @@
    ( "000000201" :> <<<<0, 2>>, <<1, 2>>>> )

\* --------------------------------------------------------- is_valid_move

abs(x) == IF x < 0 THEN 0 - x ELSE x

\* Movement direction (player moves up, AI moves down).
Direction(current_player) == IF current_player = PLAYER THEN 0 - 1 ELSE 1

InBounds(x) == 0 <= x /\ x < 3

\* Mutant of is_valid_move: a step sideways into an empty square is a move.
is_valid_move_Sideways(board, from_pos, to_pos, current_player) ==
    LET from_row == from_pos[1]
        from_col == from_pos[2]
        to_row == to_pos[1]
        to_col == to_pos[2]
    IN  IF ~(InBounds(from_row) /\ InBounds(from_col)
             /\ InBounds(to_row) /\ InBounds(to_col))
        THEN FALSE
        ELSE IF board[from_row][from_col] # current_player
        THEN FALSE
        ELSE IF to_col = from_col
        THEN to_row = from_row + Direction(current_player)
             /\ board[to_row][to_col] = EMPTY
        ELSE IF abs(to_col - from_col) = 1
        THEN \/ to_row = from_row + Direction(current_player)
                /\ board[to_row][to_col] \notin {EMPTY, current_player}
             \/ to_row = from_row /\ board[to_row][to_col] = EMPTY
        ELSE FALSE

\* Mutant of is_valid_move: no test of the source against the destination, and
\* a straight move accepted within one row onto any cell the opponent does not hold.
is_valid_move_Lax(board, from_pos, to_pos, current_player) ==
    LET from_row == from_pos[1]
        from_col == from_pos[2]
        to_row == to_pos[1]
        to_col == to_pos[2]
        direction == Direction(current_player)
    IN  IF ~(InBounds(from_row) /\ InBounds(from_col) /\ InBounds(to_row) /\ InBounds(to_col))
        THEN FALSE
        ELSE IF board[from_row][from_col] # current_player
        THEN FALSE
        ELSE IF to_col = from_col
        THEN abs(to_row - from_row) <= 1
             /\ board[to_row][to_col] \in {EMPTY, current_player}
        ELSE IF abs(to_col - from_col) = 1
        THEN to_row = from_row + direction
             /\ board[to_row][to_col] \notin {EMPTY, current_player}
        ELSE FALSE

is_valid_move(board, from_pos, to_pos, current_player) ==
    LET from_row == from_pos[1]
        from_col == from_pos[2]
        to_row == to_pos[1]
        to_col == to_pos[2]
        direction == Direction(current_player)
    IN  IF ~(InBounds(from_row) /\ InBounds(from_col) /\ InBounds(to_row) /\ InBounds(to_col))
        THEN FALSE
        ELSE IF board[from_row][from_col] # current_player
        THEN FALSE
        ELSE IF to_pos = <<from_row, from_col>>
        THEN FALSE
        ELSE IF to_col = from_col
        THEN to_row = from_row + direction /\ board[to_row][to_col] = EMPTY
        ELSE IF abs(to_col - from_col) = 1
        THEN to_row = from_row + direction
             /\ board[to_row][to_col] \notin {EMPTY, current_player}
        ELSE FALSE

\* --------------------------------------------------- get_all_valid_moves

\* Mutant of MovesOfCell: the forward move is appended without looking at
\* the cell ahead.
MovesOfCell_NoEmptyCheck(board, current_player, row, col) ==
    LET direction == Direction(current_player)
        new_row == row + direction
        forward == IF InBounds(new_row)
                   THEN << <<<<row, col>>, <<new_row, col>>>> >>
                   ELSE << >>
        capture(dc) ==
            LET new_col == col + dc
            IN  IF InBounds(new_row) /\ InBounds(new_col)
                   /\ board[new_row][new_col] \notin {EMPTY, current_player}
                THEN << <<<<row, col>>, <<new_row, new_col>>>> >>
                ELSE << >>
    IN  IF board[row][col] = current_player
        THEN forward \o capture(0 - 1) \o capture(1)
        ELSE << >>

\* Mutant of MovesOfCell: the diagonals taken in the order dc = 1, dc = -1.
MovesOfCell_RightFirst(board, current_player, row, col) ==
    LET direction == Direction(current_player)
        new_row == row + direction
        forward == IF InBounds(new_row) /\ board[new_row][col] = EMPTY
                   THEN << <<<<row, col>>, <<new_row, col>>>> >>
                   ELSE << >>
        capture(dc) ==
            LET new_col == col + dc
            IN  IF InBounds(new_row) /\ InBounds(new_col)
                   /\ board[new_row][new_col] \notin {EMPTY, current_player}
                THEN << <<<<row, col>>, <<new_row, new_col>>>> >>
                ELSE << >>
    IN  IF board[row][col] = current_player
        THEN forward \o capture(1) \o capture(0 - 1)
        ELSE << >>

\* The moves appended for the pawn at (row, col), in the order of the body
\* of the loop: forward move, then dc = -1, then dc = 1.
MovesOfCell(board, current_player, row, col) ==
    LET direction == Direction(current_player)
        new_row == row + direction
        forward == IF InBounds(new_row) /\ board[new_row][col] = EMPTY
                   THEN << <<<<row, col>>, <<new_row, col>>>> >>
                   ELSE << >>
        capture(dc) ==
            LET new_col == col + dc
            IN  IF InBounds(new_row) /\ InBounds(new_col)
                   /\ board[new_row][new_col] \notin {EMPTY, current_player}
                THEN << <<<<row, col>>, <<new_row, new_col>>>> >>
                ELSE << >>
    IN  IF board[row][col] = current_player
        THEN forward \o capture(0 - 1) \o capture(1)
        ELSE << >>

MovesOfRow(board, current_player, row) ==
    MovesOfCell(board, current_player, row, 0)
        \o MovesOfCell(board, current_player, row, 1)
        \o MovesOfCell(board, current_player, row, 2)

get_all_valid_moves(board, current_player) ==
    MovesOfRow(board, current_player, 0)
        \o MovesOfRow(board, current_player, 1)
        \o MovesOfRow(board, current_player, 2)

\* ------------------------------------------------------------- make_move

\* Mutant of make_move_call: no copy.deepcopy, the assignments write to the
\* argument.
make_move_call_NoCopy(heap, ref, from_pos, to_pos) ==
    LET h2 == [heap EXCEPT ![ref][to_pos[1]][to_pos[2]] = heap[ref][from_pos[1]][from_pos[2]]]
        h3 == [h2 EXCEPT ![ref][from_pos[1]][from_pos[2]] = EMPTY]
    IN  [heap |-> h3, ret |-> ref]

\* make_move on a heap of board objects: heap is a sequence of boards, ref
\* the index of the argument.  copy.deepcopy allocates a new object; the two
\* assignments write to it.  Returns the heap after the call and the
\* reference returned.
make_move_call(heap, ref, from_pos, to_pos) ==
    LET new_board == Len(heap) + 1
        h1 == Append(heap, heap[ref])
        h2 == [h1 EXCEPT ![new_board][to_pos[1]][to_pos[2]] = h1[new_board][from_pos[1]][from_pos[2]]]
        h3 == [h2 EXCEPT ![new_board][from_pos[1]][from_pos[2]] = EMPTY]
    IN  [heap |-> h3, ret |-> new_board]

\* The value make_move returns.
make_move(board, from_pos, to_pos) ==
    LET r == make_move_call(<<board>>, 1, from_pos, to_pos)
    IN  r.heap[r.ret]

\* ------------------------------------------------------------- check_win

Opponent(current_player) == IF current_player = AI THEN PLAYER ELSE AI

TargetRow(current_player) == IF current_player = PLAYER THEN 0 ELSE 2

\* sum(row.count(side) for row in board)
CountPawns(board, side) ==
    Cardinality({p \in Cells : board[p[1]][p[2]] = side})

\* Mutant of check_win: the target rows of the two sides exchanged.
check_win_WrongTargetRow(board, current_player) ==
    LET opponent == Opponent(current_player)
        target_row == TargetRow(opponent)
    IN  IF \E col \in 0..2 : board[target_row][col] = current_player
        THEN TRUE
        ELSE IF CountPawns(board, opponent) = 0
        THEN TRUE
        ELSE IF get_all_valid_moves(board, opponent) = << >>
        THEN TRUE
        ELSE FALSE

\* Mutant of check_win: condition 2 taken one pawn early.
check_win_LastPawnCounts(board, current_player) ==
    LET opponent == Opponent(current_player)
        target_row == TargetRow(current_player)
    IN  IF \E col \in 0..2 : board[target_row][col] = current_player
        THEN TRUE
        ELSE IF CountPawns(board, opponent) <= 1
        THEN TRUE
        ELSE IF get_all_valid_moves(board, opponent) = << >>
        THEN TRUE
        ELSE FALSE

\* Mutant of check_win: condition 3 (the opponent has no valid moves) left out.
check_win_NoStalemate(board, current_player) ==
    LET opponent == Opponent(current_player)
        target_row == TargetRow(current_player)
    IN  IF \E col \in 0..2 : board[target_row][col] = current_player
        THEN TRUE
        ELSE IF CountPawns(board, opponent) = 0
        THEN TRUE
        ELSE FALSE

check_win(board, current_player) ==
    LET opponent == Opponent(current_player)
        target_row == TargetRow(current_player)
    IN  IF \E col \in 0..2 : board[target_row][col] = current_player
        THEN TRUE
        ELSE IF CountPawns(board, opponent) = 0
        THEN TRUE
        ELSE IF get_all_valid_moves(board, opponent) = << >>
        THEN TRUE
        ELSE FALSE

\* --------------------------------------------------------- get_best_move

\* What indexing an empty list raises.
IndexError == << >>

RECURSIVE FirstWinning(_, _, _)
\* 2. The first move of valid_moves from index i on after which the AI has won,
\* or << >> when the loop ends without returning.
FirstWinning(board, valid_moves, i) ==
    IF i > Len(valid_moves)
    THEN << >>
    ELSE IF check_win(make_move(board, valid_moves[i][1], valid_moves[i][2]), AI)
    THEN valid_moves[i]
    ELSE FirstWinning(board, valid_moves, i + 1)

\* Diagonal move = capture.
IsCapture(m) == abs(m[1][2] - m[2][2]) = 1

capture_moves(valid_moves) == SelectSeq(valid_moves, IsCapture)

ToCenter(m) == m[2][2] = 1

\* Mutant of BestCapture: no priority for the center column.
BestCapture_NoCenterPriority(captures) == captures[1]

\* 3. Center captures get highest priority, else the first capture.
BestCapture(captures) ==
    LET center == SelectSeq(captures, ToCenter)
    IN  IF center # << >> THEN center[1] ELSE captures[1]

\* 4. The score of one move.
Score(board, m) ==
    LET to_pos == m[2]
        future(dc) ==
            LET next_col == to_pos[2] + dc
            IN  IF InBounds(next_col) /\ to_pos[1] + 1 < 3
                   /\ board[to_pos[1] + 1][next_col] = PLAYER
                THEN 2 ELSE 0
    IN  (IF to_pos[2] = 1 THEN 3 ELSE 0)
        + to_pos[1] * 2
        + (IF to_pos[1] < 2 THEN future(0 - 1) + future(1) ELSE 0)

\* max(scored_moves, key=lambda x: x[0])[1]: the first move with the highest score.
MaxScored(board, valid_moves) ==
    LET best == CHOOSE i \in 1..Len(valid_moves) :
                    /\ \A j \in 1..Len(valid_moves) :
                           Score(board, valid_moves[j]) <= Score(board, valid_moves[i])
                    /\ \A j \in 1..(i - 1) :
                           Score(board, valid_moves[j]) < Score(board, valid_moves[i])
    IN  valid_moves[best]

\* Mutant of ByPriority: the priorities skipped, the first valid move returned.
ByPriority_FirstMove(board, valid_moves, winning, captures) ==
    IF valid_moves # << >> THEN valid_moves[1] ELSE IndexError

\* Steps 2 to 4 and the fallback, with the loops' results at hand.
ByPriority(board, valid_moves, winning, captures) ==
    IF winning # << >>
    THEN winning
    ELSE IF captures # << >>
    THEN BestCapture(captures)
    ELSE IF valid_moves # << >>
    THEN MaxScored(board, valid_moves)
    ELSE IndexError

\* get_best_move once the book has missed.
OffBook(board, valid_moves) ==
    IF Len(valid_moves) = 1
    THEN valid_moves[1]
    ELSE ByPriority(board, valid_moves, FirstWinning(board, valid_moves, 1),
                    capture_moves(valid_moves))

\* 1. The lookup in the perfect play database.
Lookup(board, board_str) ==
    IF board_str \in DOMAIN PERFECT_MOVES
    THEN PERFECT_MOVES[board_str]
    ELSE OffBook(board, get_all_valid_moves(board, AI))

get_best_move(board) == Lookup(board, board_to_string(board))

\* ------------------------------------------------------------ /move

\* The session's fields and the JSON reply of one /move request.  The reply
\* is abridged to the branch taken (kind) and the AI move it reports.
Reply(board, game_over, winner, kind, ai_from, ai_to) ==
    [board |-> board, game_over |-> game_over, winner |-> winner,
     kind |-> kind, ai_from |-> ai_from, ai_to |-> ai_to]

\* Mutant of AfterAiMove: the game ends only when an AI pawn stands on row 2.
AfterAiMove_TargetRowOnly(board2, ai_move) ==
    IF \E col \in 0..2 : board2[2][col] = AI
    THEN Reply(board2, TRUE, "ai", "ai_won", ai_move[1], ai_move[2])
    ELSE Reply(board2, FALSE, None, "continue", ai_move[1], ai_move[2])

\* The end of move(): board2 is the board after the AI's move.
AfterAiMove(board2, ai_move) ==
    IF check_win(board2, AI)
    THEN Reply(board2, TRUE, "ai", "ai_won", ai_move[1], ai_move[2])
    ELSE IF get_all_valid_moves(board2, PLAYER) = << >>
    THEN Reply(board2, TRUE, "ai", "ai_won_no_moves", ai_move[1], ai_move[2])
    ELSE Reply(board2, FALSE, None, "continue", ai_move[1], ai_move[2])

\* Mutant of AiTurn: the move is made with its two ends exchanged.
AiTurn_EndsExchanged(board1, ai_move) ==
    AfterAiMove(make_move(board1, ai_move[2], ai_move[1]), ai_move)

\* The AI's turn: make the move get_best_move returned.
AiTurn(board1, ai_move) ==
    AfterAiMove(make_move(board1, ai_move[1], ai_move[2]), ai_move)

\* The part of move() that runs once the human move has been applied.
AfterPlayerMove(board1) ==
    IF check_win(board1, PLAYER)
    THEN Reply(board1, TRUE, "player", "player_won", None, None)
    ELSE IF get_all_valid_moves(board1, AI) = << >>
    THEN Reply(board1, TRUE, "draw", "draw", None, None)
    ELSE AiTurn(board1, get_best_move(board1))

\* Mutant of move: the human move is applied before it is validated, and the
\* board it gives is what the error reply keeps.
move_AppliesBeforeValidation(sess, from_pos, to_pos) ==
    IF sess.game_over
    THEN Reply(sess.board, sess.game_over, sess.winner, "already_over", None, None)
    ELSE IF ~is_valid_move(sess.board, from_pos, to_pos, PLAYER)
    THEN Reply(IF from_pos \in Cells /\ to_pos \in Cells
               THEN make_move(sess.board, from_pos, to_pos)
               ELSE sess.board,
               sess.game_over, sess.winner, "error", None, None)
    ELSE AfterPlayerMove(make_move(sess.board, from_pos, to_pos))

\* Mutant of move: the game_over check at the head is left out.
move_IgnoresGameOver(sess, from_pos, to_pos) ==
    IF ~is_valid_move(sess.board, from_pos, to_pos, PLAYER)
    THEN Reply(sess.board, sess.game_over, sess.winner, "error", None, None)
    ELSE AfterPlayerMove(make_move(sess.board, from_pos, to_pos))

\* move(): sess is the session before the request.
move(sess, from_pos, to_pos) ==
    IF sess.game_over
    THEN Reply(sess.board, sess.game_over, sess.winner, "already_over", None, None)
    ELSE IF ~is_valid_move(sess.board, from_pos, to_pos, PLAYER)
    THEN Reply(sess.board, sess.game_over, sess.winner, "error", None, None)
    ELSE AfterPlayerMove(make_move(sess.board, from_pos, to_pos))

\* ------------------------------------------------------- session machine

VARIABLES
    board,      \* session['board']
    game_over,  \* session['game_over']
    winner,     \* session['winner']
    request,    \* the POST /move request received and not yet handled
    reply,      \* the last reply: the branch taken and the AI move it reports
    accepted,   \* history: the human moves accepted since the game began
    stones,     \* stone-pile game: session['stones']
    call,       \* function specification: the function called and its arguments
    ret         \* function specification: what the call returned

vars == <<board, game_over, winner, request, reply, accepted, stones, call, ret>>

\* session['stones'] = 21
INITIAL_STONES == 21

NoRequest == [route |-> None, from_pos |-> None, to_pos |-> None]

NoReply == [kind |-> None, ai_from |-> None, ai_to |-> None]

NoCall == [fn |-> None, player |-> None, from_pos |-> None, to_pos |-> None]

\* A fresh session: session.get falls back to INITIAL_BOARD, False, None.
Init ==
    /\ board = INITIAL_BOARD
    /\ game_over = FALSE
    /\ winner = None
    /\ request = NoRequest
    /\ reply = NoReply
    /\ accepted = 0
    /\ stones = INITIAL_STONES
    /\ call = NoCall
    /\ ret = None

\* GET /
Index ==
    /\ request = NoRequest
    /\ board' = INITIAL_BOARD
    /\ game_over' = FALSE
    /\ winner' = None
    /\ reply' = [kind |-> "index", ai_from |-> None, ai_to |-> None]
    /\ accepted' = 0
    /\ UNCHANGED <<request, stones, call, ret>>

\* Mutant of Reset: session['winner'] is not cleared.
Reset_KeepsWinner ==
    /\ request = NoRequest
    /\ board' = INITIAL_BOARD
    /\ game_over' = FALSE
    /\ reply' = [kind |-> "reset", ai_from |-> None, ai_to |-> None]
    /\ accepted' = 0
    /\ UNCHANGED <<winner, request, stones, call, ret>>

\* POST /reset
Reset ==
    /\ request = NoRequest
    /\ board' = INITIAL_BOARD
    /\ game_over' = FALSE
    /\ winner' = None
    /\ reply' = [kind |-> "reset", ai_from |-> None, ai_to |-> None]
    /\ accepted' = 0
    /\ UNCHANGED <<request, stones, call, ret>>

\* A POST /move request arrives carrying from_pos and to_pos.
PostMove ==
    /\ request = NoRequest
    /\ \E from_pos \in Positions, to_pos \in Positions :
           request' = [route |-> "/move", from_pos |-> from_pos, to_pos |-> to_pos]
    /\ UNCHANGED <<board, game_over, winner, reply, accepted, stones, call, ret>>

\* POST /move: the handler runs on the request received.
Move ==
    /\ request.route = "/move"
    /\ LET r == move([board |-> board, game_over |-> game_over, winner |-> winner],
                     request.from_pos, request.to_pos)
       IN  /\ board' = r.board
           /\ game_over' = r.game_over
           /\ winner' = r.winner
           /\ reply' = [kind |-> r.kind, ai_from |-> r.ai_from, ai_to |-> r.ai_to]
           /\ accepted' = IF r.kind \in {"already_over", "error"}
                           THEN accepted ELSE accepted + 1
    /\ request' = NoRequest
    /\ UNCHANGED <<stones, call, ret>>

Next == Index \/ Reset \/ PostMove \/ Move

Spec == Init /\ [][Next]_vars

\* ------------------------------------------------- function specification

\* The functions of the module called on every board, outside any session.
FnInit ==
    /\ board \in Boards
    /\ game_over = FALSE
    /\ winner = None
    /\ request = NoRequest
    /\ reply = NoReply
    /\ accepted = 0
    /\ stones = INITIAL_STONES
    /\ call = NoCall
    /\ ret = None

FnCall(fn, player, from_pos, to_pos, value) ==
    /\ call' = [fn |-> fn, player |-> player, from_pos |-> from_pos, to_pos |-> to_pos]
    /\ ret' = value
    /\ UNCHANGED <<board, game_over, winner, request, reply, accepted, stones>>

\* is_valid_move with the source as destination, in and out of range.
CallIsValidMove ==
    /\ call = NoCall
    /\ \E player \in {PLAYER, AI}, from_pos \in Positions :
           FnCall("is_valid_move", player, from_pos, from_pos,
                  is_valid_move(board, from_pos, from_pos, player))

CallGetAllValidMoves ==
    /\ call = NoCall
    /\ \E player \in {PLAYER, AI} :
           FnCall("get_all_valid_moves", player, None, None,
                  get_all_valid_moves(board, player))

\* make_move on a heap that holds the board as its only object.
CallMakeMove ==
    /\ call = NoCall
    /\ \E from_pos \in Cells, to_pos \in Cells :
           FnCall("make_move", None, from_pos, to_pos,
                  make_move_call(<<board>>, 1, from_pos, to_pos))

CallCheckWin ==
    /\ call = NoCall
    /\ \E player \in {PLAYER, AI} :
           FnCall("check_win", player, None, None, check_win(board, player))

CallBoardToString ==
    /\ call = NoCall
    /\ FnCall("board_to_string", None, None, None, board_to_string(board))

CallGetBestMove ==
    /\ call = NoCall
    /\ FnCall("get_best_move", AI, None, None, get_best_move(board))

FnNext ==
    \/ CallIsValidMove
    \/ CallGetAllValidMoves
    \/ CallMakeMove
    \/ CallCheckWin
    \/ CallBoardToString
    \/ CallGetBestMove

FnSpec == FnInit /\ [][FnNext]_vars

\* ------------------------------------------------------ stone-pile game

\* Mutant of optimal_move: the rule of the variant in which the last stone
\* loses.
optimal_move_Misere(pile, rnd) ==
    IF (pile - 1) % 4 # 0
    THEN (pile - 1) % 4
    ELSE rnd

\* optimal_move(stones); rnd is what random.randint(1, 3) returns.
optimal_move(pile, rnd) ==
    IF pile % 4 # 0
    THEN pile % 4
    ELSE rnd

\* The session's fields and the JSON reply of one /play request, abridged to
\* the branch taken (kind) and stones_taken_by_ai.
NimReply(pile, over, won, kind, ai_take) ==
    [stones |-> pile, game_over |-> over, winner |-> won,
     kind |-> kind, ai_take |-> ai_take]

\* The AI's take with the safety check applied.
Capped(ai_take, pile) == IF ai_take > pile THEN pile ELSE ai_take

\* The end of play(): the AI takes ai_take from pile.
AfterAiTake(pile, ai_take) ==
    IF pile - ai_take = 0
    THEN NimReply(pile - ai_take, TRUE, "ai", "ai_took", ai_take)
    ELSE NimReply(pile - ai_take, FALSE, None, "ai_took", ai_take)

\* The part of play() that runs once the human's stones are off the pile.
AfterPlayerTake(pile, rnd) ==
    IF pile = 0
    THEN NimReply(pile, TRUE, "player", "player_won", None)
    ELSE AfterAiTake(pile, Capped(optimal_move(pile, rnd), pile))

\* play(): sess is the session before the request.
play(sess, stones_taken, rnd) ==
    IF sess.game_over
    THEN NimReply(sess.stones, sess.game_over, sess.winner, "already_over", None)
    ELSE IF stones_taken < 1 \/ stones_taken > 3 \/ stones_taken > sess.stones
    THEN NimReply(sess.stones, sess.game_over, sess.winner, "error", None)
    ELSE AfterPlayerTake(sess.stones - stones_taken, rnd)

\* The numbers a /play request may carry as stones_taken.
Takes == (1 - Margin)..(3 + Margin)

NimNoReply == [kind |-> None, ai_take |-> None]

\* A fresh session: session.get falls back to 21 and False.
NimInit ==
    /\ stones = INITIAL_STONES
    /\ game_over = FALSE
    /\ winner = None
    /\ request = NoRequest
    /\ reply = NimNoReply
    /\ board = INITIAL_BOARD
    /\ accepted = 0
    /\ call = NoCall
    /\ ret = None

\* GET /
NimIndex ==
    /\ request = NoRequest
    /\ stones' = INITIAL_STONES
    /\ game_over' = FALSE
    /\ winner' = None
    /\ reply' = [kind |-> "index", ai_take |-> None]
    /\ accepted' = 0
    /\ UNCHANGED <<board, request, call, ret>>

\* POST /reset
NimReset ==
    /\ request = NoRequest
    /\ stones' = INITIAL_STONES
    /\ game_over' = FALSE
    /\ winner' = None
    /\ reply' = [kind |-> "reset", ai_take |-> None]
    /\ accepted' = 0
    /\ UNCHANGED <<board, request, call, ret>>

\* A POST /play request arrives carrying stones_taken.
PostPlay ==
    /\ request = NoRequest
    /\ \E stones_taken \in Takes :
           request' = [route |-> "/play", stones_taken |-> stones_taken]
    /\ UNCHANGED <<board, game_over, winner, reply, accepted, stones, call, ret>>

\* POST /play: the handler runs on the request received.
Play ==
    /\ request.route = "/play"
    /\ \E rnd \in 1..3 :
           LET r == play([stones |-> stones, game_over |-> game_over,
                          winner |-> winner], request.stones_taken, rnd)
           IN  /\ stones' = r.stones
               /\ game_over' = r.game_over
               /\ winner' = r.winner
               /\ reply' = [kind |-> r.kind, ai_take |-> r.ai_take]
               /\ accepted' = IF r.kind \in {"already_over", "error"}
                               THEN accepted ELSE accepted + 1
    /\ request' = NoRequest
    /\ UNCHANGED <<board, call, ret>>

NimNext == NimIndex \/ NimReset \/ PostPlay \/ Play

NimSpec == NimInit /\ [][NimNext]_vars

\* ------------------------------------------------------------ properties

\* The set of elements of a sequence.
Range(seq) == {seq[i] : i \in 1..Len(seq)}

\* A /move request is about to be handled in a live game and passes validation.
AcceptedRequest ==
    /\ request.route = "/move"
    /\ ~game_over
    /\ is_valid_move(board, request.from_pos, request.to_pos, PLAYER)

\* A /move request is about to be handled in a live game and fails validation.
RejectedRequest ==
    /\ request.route = "/move"
    /\ ~game_over
    /\ ~is_valid_move(board, request.from_pos, request.to_pos, PLAYER)

\* The board once the accepted human move has been applied.
BoardAfterHuman == make_move(board, request.from_pos, request.to_pos)

RECURSIVE MoverWins(_, _)
\* Game-theoretic value under is_valid_move and check_win: the side to move
\* on position b, where nobody has won yet, can force a win.
MoverWins(b, side) ==
    \E m \in {<<f, t>> \in Cells \X Cells : is_valid_move(b, f, t, side)} :
        LET nb == make_move(b, m[1], m[2])
        IN  check_win(nb, side) \/ ~MoverWins(nb, Opponent(side))

\* C1: the computer plays perfectly: in a session run from the initial board
\* the winner is never the player, and no accepted human move leaves a board
\* on which check_win(board, PLAYER) holds.
C1_ComputerNeverLoses ==
    /\ winner # "player"
    /\ reply.kind # "player_won"
    /\ AcceptedRequest => ~check_win(BoardAfterHuman, PLAYER)

\* C2: get_all_valid_moves(P, S) returns exactly the pairs (from, to), in or
\* out of range, for which is_valid_move(P, from, to, S) is true.
C2_GeneratorMatchesValidator ==
    call.fn = "get_all_valid_moves" =>
        LET generated == Range(ret)
        IN  /\ \A m \in generated : is_valid_move(board, m[1], m[2], call.player)
            /\ \A from_pos \in Positions, to_pos \in Positions :
                   is_valid_move(board, from_pos, to_pos, call.player)
                       => <<from_pos, to_pos>> \in generated

\* A generator call that returned both a straight advance and a capture.
C2_Witness ==
    /\ call.fn = "get_all_valid_moves"
    /\ \E m \in Range(ret) : m[1][2] = m[2][2]
    /\ \E m \in Range(ret) : m[1][2] # m[2][2]

AfterCenterAdvance == make_move(INITIAL_BOARD, <<2, 1>>, <<1, 1>>)

C4_NoDraw ==
    /\ [](winner # "draw" /\ reply.kind # "draw")
    /\ [][(AcceptedRequest /\ get_all_valid_moves(BoardAfterHuman, AI) = << >>)
          => (game_over' /\ winner' = "player" /\ board' = BoardAfterHuman)]_vars

\* The human has won by leaving the computer, which still has a pawn, no move.
C4_Witness ==
    /\ game_over
    /\ winner = "player"
    /\ reply.kind = "player_won"
    /\ CountPawns(board, AI) > 0
    /\ get_all_valid_moves(board, AI) = << >>
    /\ \A col \in 0..2 : board[0][col] # PLAYER

\* (1) a pawn of side on the opponent's home row.
OnTargetRow(b, side) ==
    \E col \in 0..2 : b[IF side = PLAYER THEN 0 ELSE 2][col] = side

\* (2) the opponent has no pawns on the board.
NoPawns(b, side) == \A p \in Cells : b[p[1]][p[2]] # side

\* C5: check_win(P, S) is true exactly when S has a pawn on the opponent's
\* home row, or the opponent has no pawns, or the opponent has no valid move.
C5_CheckWinConditions ==
    call.fn = "check_win" =>
        (ret <=> \/ OnTargetRow(board, call.player)
                 \/ NoPawns(board, Opponent(call.player))
                 \/ get_all_valid_moves(board, Opponent(call.player)) = << >>)

\* check_win is true only because the opponent, who has pawns, is blocked.
C5_Witness ==
    /\ call.fn = "check_win"
    /\ ret
    /\ ~OnTargetRow(board, call.player)
    /\ ~NoPawns(board, Opponent(call.player))
    /\ get_all_valid_moves(board, Opponent(call.player)) = << >>

\* C6: whenever the handler is about to ask get_best_move for a move (the
\* human move was accepted, the human has not won and the computer has a
\* legal move), the board's canonical string is a key of PERFECT_MOVES.
C6_BookNeverMisses ==
    (/\ AcceptedRequest
     /\ ~check_win(BoardAfterHuman, PLAYER)
     /\ get_all_valid_moves(BoardAfterHuman, AI) # << >>)
        => board_to_string(BoardAfterHuman) \in DOMAIN PERFECT_MOVES

\* C7: a /move request that fails validation in a live game leaves the
\* board, game_over and winner as they were and reports no computer move.
C7_RejectedMoveChangesNothing ==
    [][RejectedRequest
       => (/\ board' = board
           /\ game_over' = game_over
           /\ winner' = winner
           /\ reply'.kind = "error"
           /\ reply'.ai_from = None
           /\ reply'.ai_to = None)]_vars

\* A move was rejected in the middle of a game.
C7_Witness ==
    /\ reply.kind = "error"
    /\ ~game_over
    /\ board # INITIAL_BOARD

\* The cells of the returned board other than from and to are the input's, and
\* the input object is unchanged by the call.
MakeMoveFrame ==
    /\ ret.heap[1] = board
    /\ ret.ret # 1
    /\ \A p \in Cells \ {call.from_pos, call.to_pos} :
           ret.heap[ret.ret][p[1]][p[2]] = board[p[1]][p[2]]
    /\ ret.heap[ret.ret][call.from_pos[1]][call.from_pos[2]] = EMPTY
    /\ make_move(board, call.from_pos, call.to_pos) = ret.heap[ret.ret]

\* C8 as stated: after make_move(board, from, to) the input is unchanged, the
\* result equals the input except that from is EMPTY and to holds what the
\* input held at from.
C8_MakeMoveLocal ==
    call.fn = "make_move" =>
        /\ MakeMoveFrame
        /\ ret.heap[ret.ret][call.to_pos[1]][call.to_pos[2]]
               = board[call.from_pos[1]][call.from_pos[2]]

\* C8 as amended: the same, with to holding what the input held at from
\* when from and to differ; when they are equal the cell is EMPTY.
C8_MakeMoveLocalDistinct ==
    call.fn = "make_move" =>
        /\ MakeMoveFrame
        /\ call.from_pos # call.to_pos
               => ret.heap[ret.ret][call.to_pos[1]][call.to_pos[2]]
                      = board[call.from_pos[1]][call.from_pos[2]]

\* A pawn was moved onto another pawn.
C8_Witness ==
    /\ call.fn = "make_move"
    /\ call.from_pos # call.to_pos
    /\ board[call.from_pos[1]][call.from_pos[2]] = PLAYER
    /\ board[call.to_pos[1]][call.to_pos[2]] = AI
    /\ ret.heap[ret.ret][call.to_pos[1]][call.to_pos[2]] = PLAYER

\* The boards that differ from b in one cell or by the exchange of two cells.
Variants(b) ==
    {[b EXCEPT ![p[1]][p[2]] = v] : p \in Cells, v \in {EMPTY, PLAYER, AI}}
        \cup {[b EXCEPT ![p[1]][p[2]] = b[q[1]][q[2]], ![q[1]][q[2]] = b[p[1]][p[2]]] :
                  p \in Cells, q \in Cells}

\* The canonical strings of all boards.
BoardStrings == {board_to_string(b) : b \in Boards}

\* C9: two boards have the same canonical string if and only if they are the
\* same board: the string returned for a board is the string of no variant of
\* it, and there are as many strings as boards (a fact about all boards at
\* once, evaluated at the call on the initial board).
C9_StringInjective ==
    call.fn = "board_to_string" =>
        /\ \A b \in Variants(board) : (board_to_string(b) = ret) <=> (b = board)
        /\ board = INITIAL_BOARD => Cardinality(BoardStrings) = Cardinality(Boards)

\* The string of a board that holds all three cell values.
C9_Witness ==
    /\ call.fn = "board_to_string"
    /\ ret = "120000000"

\* C10: is_valid_move(board, c, c, side) is false for every board, side and
\* coordinate pair c, in or out of range.
C10_SameCellRejected ==
    (call.fn = "is_valid_move" /\ call.from_pos = call.to_pos) => ~ret

\* The call was made on a cell that holds the mover's own pawn.
C10_Witness ==
    /\ call.fn = "is_valid_move"
    /\ call.from_pos = call.to_pos
    /\ call.from_pos \in Cells
    /\ board[call.from_pos[1]][call.from_pos[2]] = call.player
    /\ ~ret

\* C11: every entry of PERFECT_MOVES is a legal computer move on the board
\* its key is the canonical string of.
C11_BookMovesLegal ==
    (call.fn = "get_best_move" /\ board_to_string(board) \in DOMAIN PERFECT_MOVES)
        => /\ ret = PERFECT_MOVES[board_to_string(board)]
           /\ is_valid_move(board, ret[1], ret[2], AI)

\* The candidate moves of a side in the order claimed: source cells row-major,
\* and per source the straight advance, the left diagonal, the right diagonal.
CandidatesOfCell(player, row, col) ==
    << <<<<row, col>>, <<row + Direction(player), col>>>>,
       <<<<row, col>>, <<row + Direction(player), col - 1>>>>,
       <<<<row, col>>, <<row + Direction(player), col + 1>>>> >>

CandidatesOfRow(player, row) ==
    CandidatesOfCell(player, row, 0) \o CandidatesOfCell(player, row, 1)
        \o CandidatesOfCell(player, row, 2)

Candidates(player) ==
    CandidatesOfRow(player, 0) \o CandidatesOfRow(player, 1) \o CandidatesOfRow(player, 2)

RECURSIVE ValidOnly(_, _, _, _)
\* The candidates from index i on that is_valid_move accepts, order kept.
ValidOnly(b, player, cands, i) ==
    IF i > Len(cands)
    THEN << >>
    ELSE (IF is_valid_move(b, cands[i][1], cands[i][2], player)
          THEN <<cands[i]>> ELSE << >>)
         \o ValidOnly(b, player, cands, i + 1)

\* C14: get_all_valid_moves returns the valid moves in a fixed order: source
\* cells row-major, and per source cell the straight advance, then the left
\* diagonal capture, then the right diagonal capture.
C14_GeneratorOrder ==
    call.fn = "get_all_valid_moves" =>
        ret = ValidOnly(board, call.player, Candidates(call.player), 1)

\* A call that returned both diagonal captures of one pawn, left before right.
C14_Witness ==
    /\ call.fn = "get_all_valid_moves"
    /\ \E i \in 1..Len(ret) :
           /\ i + 1 <= Len(ret)
           /\ ret[i][1] = ret[i + 1][1]
           /\ ret[i][2][2] = ret[i][1][2] - 1
           /\ ret[i + 1][2][2] = ret[i][1][2] + 1

\* The indices of the computer's valid moves after which the computer has won,
\* and of those that are diagonal.
WinningIndices(b) ==
    {i \in 1..Len(get_all_valid_moves(b, AI)) :
        check_win(make_move(b, get_all_valid_moves(b, AI)[i][1],
                            get_all_valid_moves(b, AI)[i][2]), AI)}

CaptureIndices(b) ==
    {i \in 1..Len(get_all_valid_moves(b, AI)) :
        get_all_valid_moves(b, AI)[i][1][2] # get_all_valid_moves(b, AI)[i][2][2]}

CenterCaptureIndices(b) ==
    {i \in CaptureIndices(b) : get_all_valid_moves(b, AI)[i][2][2] = 1}

Least(S) == CHOOSE i \in S : \A j \in S : i <= j

\* C15: off the book, when some valid move wins at once get_best_move returns
\* the first such move in generator order; when none does and a capture
\* exists it returns the first capture landing in the center column, or the
\* first capture when none lands there.
C15_FallbackPriorities ==
    (/\ call.fn = "get_best_move"
     /\ board_to_string(board) \notin DOMAIN PERFECT_MOVES
     /\ get_all_valid_moves(board, AI) # << >>)
        => IF WinningIndices(board) # {}
           THEN /\ ret = get_all_valid_moves(board, AI)[Least(WinningIndices(board))]
                /\ check_win(make_move(board, ret[1], ret[2]), AI)
           ELSE IF CenterCaptureIndices(board) # {}
           THEN ret = get_all_valid_moves(board, AI)[Least(CenterCaptureIndices(board))]
           ELSE IF CaptureIndices(board) # {}
           THEN ret = get_all_valid_moves(board, AI)[Least(CaptureIndices(board))]
           ELSE TRUE

\* No move wins at once, the first capture in generator order lands on a side
\* column, and a later capture landing in the center column was returned.
C15_Witness ==
    /\ call.fn = "get_best_move"
    /\ board_to_string(board) \notin DOMAIN PERFECT_MOVES
    /\ WinningIndices(board) = {}
    /\ CenterCaptureIndices(board) # {}
    /\ Least(CaptureIndices(board)) < Least(CenterCaptureIndices(board))
    /\ ret = get_all_valid_moves(board, AI)[Least(CenterCaptureIndices(board))]

\* The human has exactly one pawn, on row 1, and a legal move.
LoneHumanPawnCanMove ==
    /\ Cardinality({p \in Cells : board[p[1]][p[2]] = PLAYER}) = 1
    /\ \E col \in 0..2 : board[1][col] = PLAYER
    /\ \E from_pos \in Cells, to_pos \in Cells :
           is_valid_move(board, from_pos, to_pos, PLAYER)

\* C16 as stated: when the human has exactly one pawn, on row 1, and a legal
\* move, check_win(position, AI) is false.
C16_LonePawnNotLost ==
    (call.fn = "check_win" /\ call.player = AI /\ LoneHumanPawnCanMove) => ~ret

\* C16 as amended: the same, for positions in which the computer has no pawn
\* on row 2.
C16_LonePawnNotLostOffHomeRow ==
    (/\ call.fn = "check_win"
     /\ call.player = AI
     /\ LoneHumanPawnCanMove
     /\ \A col \in 0..2 : board[2][col] # AI)
        => ~ret

\* The lone human pawn faces computer pawns, none of them on row 2.
C16_Witness ==
    /\ call.fn = "check_win"
    /\ call.player = AI
    /\ LoneHumanPawnCanMove
    /\ \A col \in 0..2 : board[2][col] # AI
    /\ CountPawns(board, AI) > 0
    /\ ~ret

\* The AI's turn was reached by the request just handled.
AiMoved == reply.kind \in {"ai_won", "ai_won_no_moves", "continue"}

\* C12: a side to move is never stuck in a live game: while game_over is
\* false the human has a legal move; whenever move() reaches get_best_move
\* the computer has a legal move on the board it is given; and a human left
\* without a move has already been found beaten by check_win, so the
\* separate no-moves branch is never the one taken.
C12_NeverStuck ==
    /\ [](~game_over => get_all_valid_moves(board, PLAYER) # << >>)
    /\ [](reply.kind # "ai_won_no_moves")
    /\ [][(request.route = "/move" /\ reply'.kind \in {"ai_won", "ai_won_no_moves", "continue"})
             => /\ AcceptedRequest
                /\ get_all_valid_moves(BoardAfterHuman, AI) # << >>
                /\ reply'.ai_from # None]_vars

\* The computer moved and left the human pawns that remain without a move;
\* the game was flagged won by the computer at once.
C12_Witness ==
    /\ reply.kind = "ai_won"
    /\ game_over
    /\ CountPawns(board, PLAYER) > 0
    /\ \A col \in 0..2 : board[2][col] # AI
    /\ get_all_valid_moves(board, PLAYER) = << >>

\* A potential that every legal move lowers: a pawn weighs the number of rows
\* it has yet to cross, plus one.
Weight(b, row, col) ==
    IF b[row][col] = PLAYER THEN row + 1
    ELSE IF b[row][col] = AI THEN 3 - row
    ELSE 0

RowWeight(b, row) == Weight(b, row, 0) + Weight(b, row, 1) + Weight(b, row, 2)

Potential(b) == RowWeight(b, 0) + RowWeight(b, 1) + RowWeight(b, 2)

LegalMoves(b, side) ==
    {m \in Cells \X Cells : is_valid_move(b, m[1], m[2], side)}

RECURSIVE NoRepeat(_, _, _)
\* Every sequence of legal moves from b, the sides alternating from side on
\* (played on even past a win), lowers the potential at each move and never
\* comes to a position in seen or to one it has been through.
NoRepeat(b, side, seen) ==
    \A m \in LegalMoves(b, side) :
        LET nb == make_move(b, m[1], m[2])
        IN  /\ Potential(nb) < Potential(b)
            /\ nb \notin seen
            /\ NoRepeat(nb, Opponent(side), seen \cup {nb})

\* C13: every game terminates: no sequence of legal moves from the initial
\* position repeats a position, each accepted request lowers the potential of
\* the stored board, and a session is over after at most 4 accepted human
\* moves.
C13_GameTerminates ==
    /\ [](reply = NoReply /\ request = NoRequest
            => NoRepeat(INITIAL_BOARD, PLAYER, {INITIAL_BOARD}))
    /\ [](accepted <= 4 /\ (accepted >= 4 => game_over))
    /\ [][accepted' > accepted => Potential(board') < Potential(board)]_vars

\* The longest game the session plays: over at the third accepted move.
C13_Witness ==
    /\ accepted = 3
    /\ game_over
    /\ reply.kind \in {"player_won", "ai_won"}

\* C18: the move that move() makes for the computer is a legal computer move
\* on the board it is made on, so the stored board only changes by legal
\* moves (or returns to the initial board): its cells stay in {0, 1, 2} and
\* neither side's pawn count grows.
C18_BoardChangesByLegalMoves ==
    /\ [](board \in Boards)
    /\ [][(request.route = "/move" /\ reply'.ai_from # None)
             => /\ is_valid_move(BoardAfterHuman, reply'.ai_from, reply'.ai_to, AI)
                /\ board' = make_move(BoardAfterHuman, reply'.ai_from, reply'.ai_to)]_vars
    /\ [][board' # board
             => \/ board' = INITIAL_BOARD /\ reply'.kind \in {"index", "reset"}
                \/ /\ AcceptedRequest
                   /\ \/ board' = BoardAfterHuman
                      \/ \E m \in LegalMoves(BoardAfterHuman, AI) :
                             board' = make_move(BoardAfterHuman, m[1], m[2])
                   /\ CountPawns(board', PLAYER) <= CountPawns(board, PLAYER)
                   /\ CountPawns(board', AI) <= CountPawns(board, AI)]_vars

\* The computer answered with a capture and the game goes on.
C18_Witness ==
    /\ reply.kind = "continue"
    /\ reply.ai_from # None
    /\ reply.ai_from[2] # reply.ai_to[2]
    /\ board[reply.ai_to[1]][reply.ai_to[2]] = AI
    /\ board[reply.ai_from[1]][reply.ai_from[2]] = EMPTY
    /\ CountPawns(board, PLAYER) = 2

\* C19: a finished game is absorbing: once game_over is true every /move
\* request, whatever its coordinates, leaves board, game_over and winner as
\* they are and makes no computer move; only /reset or the index page makes
\* game_over false again, with the initial board and winner None.
C19_FinishedGameAbsorbing ==
    /\ [][(game_over /\ request.route = "/move")
             => /\ board' = board
                /\ game_over'
                /\ winner' = winner
                /\ reply'.kind = "already_over"
                /\ reply'.ai_from = None /\ reply'.ai_to = None]_vars
    /\ [][(game_over /\ (~game_over' \/ board' # board \/ winner' # winner))
             => /\ reply'.kind \in {"index", "reset"}
                /\ board' = INITIAL_BOARD
                /\ ~game_over'
                /\ winner' = None]_vars

\* A request came in after the game had ended and was turned away.
C19_Witness ==
    /\ reply.kind = "already_over"
    /\ game_over
    /\ winner \in {"player", "ai"}
    /\ board # INITIAL_BOARD

\* C20: the outcome fields agree with the stored board: while game_over is
\* false winner is None and check_win holds for neither side; winner
\* 'player' implies check_win(board, PLAYER); winner 'ai' implies
\* check_win(board, AI).
C20_OutcomeAgreesWithBoard ==
    /\ ~game_over => /\ winner = None
                     /\ ~check_win(board, PLAYER)
                     /\ ~check_win(board, AI)
    /\ winner = "player" => check_win(board, PLAYER)
    /\ winner = "ai" => check_win(board, AI)

\* A game the human won is stored with a board on which check_win agrees.
C20_Witness ==
    /\ game_over
    /\ winner = "player"
    /\ reply.kind = "player_won"
    /\ check_win(board, PLAYER)

\* A /play request is about to be handled in a live game and passes validation.
AcceptedTake ==
    /\ request.route = "/play"
    /\ ~game_over
    /\ request.stones_taken \in 1..3
    /\ request.stones_taken <= stones

\* The pile once the accepted human take is off it.
PileAfterHuman == stones - request.stones_taken

\* C17: the computer's rule in the stone-pile game is optimal.  The computer
\* takes between 1 and 3 stones and never more than remain; when an accepted
\* human take leaves a non-zero pile that is not a multiple of 4 the
\* computer's take leaves a multiple of 4; and from a multiple of 4 every
\* accepted human take shrinks the pile, is answered back to a multiple of 4
\* and never makes the human the winner, so that the game, which is over
\* exactly when the pile is empty, ends with winner = 'ai'.
C17_StoneRuleOptimal ==
    /\ [][(AcceptedTake /\ PileAfterHuman # 0)
             => /\ reply'.ai_take \in 1..3
                /\ reply'.ai_take <= PileAfterHuman
                /\ stones' = PileAfterHuman - reply'.ai_take
                /\ PileAfterHuman % 4 # 0 => stones' % 4 = 0]_vars
    /\ [][(AcceptedTake /\ stones % 4 = 0)
             => /\ stones' % 4 = 0
                /\ stones' < stones
                /\ winner' # "player"]_vars
    /\ [](stones \in 0..INITIAL_STONES)
    /\ [](game_over <=> stones = 0)
    /\ [](stones = 0 => winner \in {"player", "ai"})
    /\ []((stones % 4 = 0 /\ winner # "player") => winner = (IF stones = 0 THEN "ai" ELSE None))

\* The computer took the last stones of a game in which it had brought the
\* pile to a multiple of 4.
C17_Witness ==
    /\ game_over
    /\ winner = "ai"
    /\ stones = 0
    /\ reply.kind = "ai_took"
    /\ reply.ai_take \in 1..3
    /\ accepted >= 5

====
